---- MODULE Spec2Model ----
(***************************************************************************)
(* gh2pdf: a repository (GitHub URL or local path) rendered into a PDF.    *)
(* The model follows src/gh2pdf.py: main (acquire, select, generate,       *)
(* cleanup), build_tree / collect_files over one directory walk,           *)
(* generate_pdf's story assembly with its directory-heading loop,          *)
(* the document build calling TOCDocTemplate.afterFlowable once per        *)
(* flowable, and build_code_lines with highlighting disabled.              *)
(*                                                                         *)
(* Strings that the code only concatenates are TLA+ strings; strings the   *)
(* code takes apart are sequences: a path is its sequence of parts, a text *)
(* is its sequence of characters, a tree line is (indent, label, slash).   *)
(***************************************************************************)
EXTENDS Integers, Sequences, FiniteSets, TLC

VARIABLES
    pc,                 \* position of the run
    source,             \* args.source
    path_exists,        \* file system: does the local source path exist
    repo,               \* file system: the files below the repository root
    listing,            \* file system: the order in which a directory lists its subdirectories
    temp_dir,           \* main: temp_dir (None or the directory's name)
    tmp_exists,         \* file system: does the ephemeral directory exist
    rm_result,          \* history: "not called", or how shutil.rmtree ended
    repo_root,          \* main: repo_root, as path parts
    tree_text,          \* main: tree_text, a sequence of lines
    files,              \* main / generate_pdf: files, a sequence of paths
    result,             \* the outcome of the try block: "none", "ok" or the error raised
    outcome,            \* what main returns or raises, set when the finally clause is done
    gen_called,         \* history: generate_pdf was invoked
    output_written,     \* file system: the output PDF was written
    printed,            \* stdout: "PDF created" was printed
    next_file,          \* generate_pdf: index of the next element of files in the for loop
    current_dir_parts,  \* generate_pdf: current_dir_parts
    story,              \* generate_pdf: story
    pos,                \* doc.build: index of the next flowable of the story
    page,               \* doc.build: doc.page
    overflow,           \* doc.build: pages begun because a flowable did not fit
    heading_count,      \* TOCDocTemplate._heading_count
    last_outline_level, \* TOCDocTemplate._last_outline_level
    outline,            \* canvas: the outline entries added, in order
    notified,           \* the TOCEntry notifications sent, in order
    toc_entries,        \* TableOfContents: the entries it collected in this build
    toc_drawn,          \* TableOfContents: the entries it laid out ("unset" before)
    text,               \* build_code_lines: text, a sequence of characters
    lines,              \* build_code_lines: the result
    lines_again         \* escape applied to every line of the result

mainVars == <<pc, source, path_exists, repo, listing, temp_dir, tmp_exists, rm_result,
              repo_root, tree_text, files, result, outcome, gen_called,
              output_written, printed>>
genVars == <<next_file, current_dir_parts, story>>
docVars == <<pos, page, overflow, heading_count, last_outline_level, outline,
             notified, toc_entries, toc_drawn>>
escVars == <<text, lines, lines_again>>
vars == <<mainVars, genVars, docVars, escVars>>

None == "None"

-----------------------------------------------------------------------------
(* Bounds of the model *)

\* The most files a repository of the model holds.
MaxFiles == 3
\* The longest file list handed directly to generate_pdf.
MaxListLen == 3
\* The longest story handed directly to the document build.
MaxStory == 4
\* The most pages begun because a flowable did not fit on the current one.
MaxOverflow == 1
\* The longest text handed to build_code_lines.
MaxTextLen == 4

-----------------------------------------------------------------------------
(* Program constants *)

DEFAULT_EXTS ==
    {".go", ".py", ".js", ".ts", ".java", ".c", ".cpp", ".h", ".hpp", ".rs", ".rb",
     ".php", ".cs", ".swift", ".kt", ".m", ".scala", ".sh", ".yaml", ".yml", ".toml",
     ".json"}

DEFAULT_EXCLUDE_DIRS ==
    {".git", "node_modules", "vendor", "dist", "build", ".idea", ".vscode", "__pycache__"}

\* --max-file-size-kb
DefaultMaxFileSizeKb == 512

BytesPerKb == 1024

-----------------------------------------------------------------------------
(* Sequences *)

Last(s) == s[Len(s)]

Front(s) == SubSeq(s, 1, Len(s) - 1)

Take(s, n) == SubSeq(s, 1, n)

Drop(s, n) == SubSeq(s, n + 1, Len(s))

IsPrefix(p, s) == Len(p) <= Len(s) /\ Take(s, Len(p)) = p

RECURSIVE Flatten(_)
Flatten(ss) == IF ss = <<>> THEN <<>> ELSE Head(ss) \o Flatten(Tail(ss))

\* "/".join(parts) and str(path) of a relative path
RECURSIVE Join(_)
Join(parts) ==
    IF parts = <<>> THEN ""
    ELSE IF Len(parts) = 1 THEN parts[1]
    ELSE parts[1] \o "/" \o Join(Tail(parts))

-----------------------------------------------------------------------------
(* The file system the run reads *)

\* Every name of the model in the order sorted() gives (code point order).
NameOrder ==
    <<"a", "b", "big.py", "c", "d", "f.py", "g.py", "gone.py", "h.PY", "lim.py",
      "n.md", "vendor">>

Rank(n) == CHOOSE i \in 1..Len(NameOrder) : NameOrder[i] = n

File(d, stem, ext, bytes, stat) ==
    [dir |-> d, stem |-> stem, ext |-> ext, bytes |-> bytes, stat |-> stat]

FileName(f) == f.stem \o f.ext

CeilingBytes == DefaultMaxFileSizeKb * BytesPerKb

\* The directories of the model that hold source files.
SourceDirs ==
    {<<>>, <<"a">>, <<"b">>, <<"a", "c">>, <<"b", "c">>, <<"a", "c", "d">>}

\* The files a repository of the model may hold: small source files in every
\* directory, files at and above the size ceiling, a file whose stat fails, a
\* file of another extension, an upper-case extension, files in excluded
\* directories.
FileUniverse ==
    {File(d, "f", ".py", 100, TRUE) : d \in SourceDirs}
    \cup {File(<<>>, "g", ".py", 100, TRUE),
          File(<<"a", "c">>, "g", ".py", 100, TRUE),
          File(<<"b">>, "big", ".py", CeilingBytes + 1, TRUE),
          File(<<"a">>, "lim", ".py", CeilingBytes, TRUE),
          File(<<"a", "c">>, "gone", ".py", 100, FALSE),
          File(<<"b">>, "n", ".md", 100, TRUE),
          File(<<>>, "h", ".PY", 100, TRUE),
          File(<<"vendor">>, "f", ".py", 100, TRUE),
          File(<<"a", "vendor">>, "f", ".py", 100, TRUE)}

RECURSIVE SubsetsUpTo(_, _)
SubsetsUpTo(S, n) ==
    IF n = 0 THEN {{}}
    ELSE LET smaller == SubsetsUpTo(S, n - 1)
         IN  smaller \cup {T \cup {x} : T \in smaller, x \in S}

Repos == SubsetsUpTo(FileUniverse, MaxFiles)

Listings == {"asc", "desc"}

\* The names in S as a sequence, in sorted() order.
RECURSIVE Sorted(_)
Sorted(S) ==
    IF S = {} THEN <<>>
    ELSE LET m == CHOOSE x \in S : \A y \in S : Rank(x) <= Rank(y)
         IN  <<m>> \o Sorted(S \ {m})

Reverse(s) == [i \in 1..Len(s) |-> s[Len(s) + 1 - i]]

\* os.walk's dirnames for directory d: in the order the directory lists them.
DirNames(fs, d, order) ==
    LET names == {f.dir[Len(d) + 1] : f \in {g \in fs : IsPrefix(d, g.dir) /\ Len(g.dir) > Len(d)}}
    IN  IF order = "asc" THEN Sorted(names) ELSE Reverse(Sorted(names))

\* os.walk's filenames for directory d.
FileNames(fs, d) == {FileName(f) : f \in {g \in fs : g.dir = d}}

FileAt(fs, d, name) == CHOOSE f \in fs : f.dir = d /\ FileName(f) = name

\* Path(filename).suffix.lower() of a file of the model.
Lower(ext) == IF ext = ".PY" THEN ".py" ELSE ext

Suffix(fs, d, name) == Lower(FileAt(fs, d, name).ext)

\* for dirpath, dirnames, filenames in os.walk(root), with
\* dirnames[:] = [d for d in dirnames if d not in exclude_dirs]:
\* the directories visited, top down, as paths relative to the root.
RECURSIVE WalkFrom(_, _, _, _)
WalkFrom(fs, todo, order, exclude_dirs) ==
    IF todo = <<>> THEN <<>>
    ELSE LET d == Head(todo)
             kept == SelectSeq(DirNames(fs, d, order), LAMBDA n : n \notin exclude_dirs)
             below == [i \in 1..Len(kept) |-> d \o <<kept[i]>>]
         IN  <<d>> \o WalkFrom(fs, below \o Tail(todo), order, exclude_dirs)

Walk(fs, order, exclude_dirs) == WalkFrom(fs, <<<<>>>>, order, exclude_dirs)

-----------------------------------------------------------------------------
(* File Selector: build_tree and collect_files *)

TreeLine(indent, label, slash) == [indent |-> indent, label |-> label, slash |-> slash]

\* indent_level = 0 if rel_dir == "." else rel_dir.count(os.sep) + 1
IndentLevel(d) == Len(d)

\* The lines build_tree appends for one directory: the directory's line, then
\* one line per file, in sorted order, whose suffix is in include_exts.
TreeLinesOf(fs, d, root_name, include_exts) ==
    LET names == Sorted(FileNames(fs, d))
        shown == SelectSeq(names, LAMBDA n : Suffix(fs, d, n) \in include_exts)
        head == IF d = <<>> THEN TreeLine(0, root_name, TRUE)
                ELSE TreeLine(IndentLevel(d), Last(d), TRUE)
    IN  <<head>> \o [i \in 1..Len(shown) |-> TreeLine(IndentLevel(d) + 1, shown[i], FALSE)]

build_tree(fs, order, root_name, include_exts, exclude_dirs) ==
    LET visited == Walk(fs, order, exclude_dirs)
    IN  Flatten([i \in 1..Len(visited) |->
                    TreeLinesOf(fs, visited[i], root_name, include_exts)])

\* The filter of collect_files: the suffix, then the stat, then the size.
Accepted(fs, d, name, include_exts, max_size_kb) ==
    LET f == FileAt(fs, d, name)
    IN  /\ Suffix(fs, d, name) \in include_exts
        /\ f.stat
        /\ ~(f.bytes > max_size_kb * BytesPerKb)

\* The paths collect_files appends for one directory: Path(dirpath) / filename.
CollectedOf(fs, d, root, include_exts, max_size_kb) ==
    LET names == Sorted(FileNames(fs, d))
        kept == SelectSeq(names, LAMBDA n : Accepted(fs, d, n, include_exts, max_size_kb))
    IN  [i \in 1..Len(kept) |-> root \o d \o <<kept[i]>>]

collect_files(fs, order, root, include_exts, exclude_dirs, max_size_kb) ==
    LET visited == Walk(fs, order, exclude_dirs)
    IN  Flatten([i \in 1..Len(visited) |->
                    CollectedOf(fs, visited[i], root, include_exts, max_size_kb)])

\* The relative paths of the files a tree text lists: a directory line at
\* indent k names the directory at depth k; a file line belongs to the
\* directory line above it.
RECURSIVE TreeFilesFrom(_, _)
TreeFilesFrom(ls, cur) ==
    IF ls = <<>> THEN {}
    ELSE LET l == Head(ls)
         IN  IF l.slash
             THEN TreeFilesFrom(Tail(ls),
                      IF l.indent = 0 THEN <<>> ELSE Take(cur, l.indent - 1) \o <<l.label>>)
             ELSE {cur \o <<l.label>>} \cup TreeFilesFrom(Tail(ls), cur)

TreeFiles(ls) == TreeFilesFrom(ls, <<>>)

\* path.relative_to(repo_root)
RelativeTo(path, root) == Drop(path, Len(root))

Range(s) == {s[i] : i \in 1..Len(s)}

\* The relative paths of a file list.
RelFiles(fl, root) == {RelativeTo(p, root) : p \in Range(fl)}

-----------------------------------------------------------------------------
(* Document Assembler: the story generate_pdf assembles *)

\* A flowable of the story. style is "none" for a flowable without a style
\* attribute (Spacer, PageBreak, TableOfContents). role and segs record where
\* a heading comes from: "dir" or "file" with the number of path segments
\* its text joins, "fixed" with 0 for every other flowable. The body of a
\* preformatted block (Preformatted, or XPreformatted with highlighting) is
\* never examined by the build; its text is the name of what it renders.
Flowable(kind, style, txt, role, segs) ==
    [kind |-> kind, style |-> style, text |-> txt, role |-> role, segs |-> segs]

Paragraph(txt, style) == Flowable("Paragraph", style, txt, "fixed", 0)

Spacer == Flowable("Spacer", "none", "", "fixed", 0)

PageBreak == Flowable("PageBreak", "none", "", "fixed", 0)

Preformatted(txt) == Flowable("Preformatted", "CodeBlock", txt, "fixed", 0)

TableOfContents == Flowable("TableOfContents", "none", "", "fixed", 0)

\* story.append(...) of the title block, the directory listing and the
\* table of contents.
Preamble(title, source_label) ==
    << Paragraph("Repository: " \o title, "Title"),
       Paragraph("Source: " \o source_label, "Normal"),
       Paragraph("Generated: now", "Normal"),
       Spacer,
       Paragraph("Directory", "Heading1"),
       Preformatted("tree_text"),
       PageBreak,
       Paragraph("Table of Contents", "Heading1"),
       TableOfContents,
       PageBreak >>

\* Every directory heading at the top level.
DirStyleMutant(idx) == "Heading1"

\* style_name = "Heading1" if idx == 0 else "Heading2"
DirStyle(idx) == IF idx = 0 THEN "Heading1" ELSE "Heading2"

\* The third level already for a file under one directory.
FileStyleMutant(dir_parts) == IF Len(dir_parts) >= 1 THEN "Heading3" ELSE "Heading2"

\* file_heading_style: "Heading3" if len(dir_parts) >= 2 else "Heading2"
FileStyle(dir_parts) == IF Len(dir_parts) >= 2 THEN "Heading3" ELSE "Heading2"

\* A comparison of the lengths only.
SegmentOpenMutant(cur, idx, part) == Len(cur) > idx

\* Is the segment at idx (counted from 0) open already?
\* len(current_dir_parts) > idx and current_dir_parts[idx] == part
SegmentOpen(cur, idx, part) == Len(cur) > idx /\ cur[idx + 1] = part

\* for idx, part in enumerate(dir_parts): the loop from idx on, with
\* current_dir_parts = cur and the headings appended so far in out.
RECURSIVE DirLoop(_, _, _, _)
DirLoop(dir_parts, idx, cur, out) ==
    IF idx >= Len(dir_parts) THEN [cur |-> cur, out |-> out]
    ELSE IF SegmentOpen(cur, idx, dir_parts[idx + 1])
         THEN DirLoop(dir_parts, idx + 1, cur, out)
         ELSE LET now == Take(dir_parts, idx + 1)
                  h == Flowable("Paragraph", DirStyle(idx), Join(now), "dir", idx + 1)
              IN  DirLoop(dir_parts, idx + 1, now, Append(out, h))

\* What one iteration of "for path in files" appends, and current_dir_parts after it.
FileSection(path, root, cur) ==
    LET rel == RelativeTo(path, root)
        dir_parts == Front(rel)
        dirs == DirLoop(dir_parts, 0, cur, <<>>)
        h == Flowable("Paragraph", FileStyle(dir_parts), Join(rel), "file", Len(rel))
    IN  [cur |-> dirs.cur,
         out |-> dirs.out \o <<h, Preformatted(Join(rel)), PageBreak>>]

-----------------------------------------------------------------------------
(* TOCDocTemplate and the document build *)

level_map == ("Heading1" :> 0) @@ ("Heading2" :> 1) @@ ("Heading3" :> 2)

\* A level map without its third entry.
IsHeadingMutant(fl) == fl.style \in {"Heading1", "Heading2"}

\* hasattr(flowable, "style") and level_map.get(flowable.style.name) is not None
IsHeading(fl) == fl.style # "none" /\ fl.style \in DOMAIN level_map

\* No clamp.
ClampMutant(level, last) == level

\* if level > self._last_outline_level + 1: level = self._last_outline_level + 1
Clamp(level, last) == IF level > last + 1 THEN last + 1 ELSE level

\* The flowables doc.build registers as listeners of notify: none. Only
\* multiBuild scans the story for indexing flowables.
IndexingFlowables == {}

\* What a TableOfContents lays out: the entries of the previous pass of the
\* build. doc.build makes one pass.
LastPassEntries == <<>>

\* TOCDocTemplate.__init__
DocInit ==
    /\ pos = 1
    /\ page = 1
    /\ overflow = 0
    /\ heading_count = 0
    /\ last_outline_level = -1
    /\ outline = <<>>
    /\ notified = <<>>
    /\ toc_entries = <<>>
    /\ toc_drawn = <<>>

DocInitNext ==
    /\ pos' = 1
    /\ page' = 1
    /\ overflow' = 0
    /\ heading_count' = 0
    /\ last_outline_level' = -1
    /\ outline' = <<>>
    /\ notified' = <<>>
    /\ toc_entries' = <<>>
    /\ toc_drawn' = <<>>

\* TOCDocTemplate.afterFlowable(flowable), on page pg.
afterFlowable(fl, pg) ==
    IF ~IsHeading(fl)
    THEN UNCHANGED <<heading_count, last_outline_level, outline, notified, toc_entries>>
    ELSE LET level == Clamp(level_map[fl.style], last_outline_level)
             count == heading_count + 1
             bookmark_key == <<"h", level, count>>
             entry == [level |-> level, text |-> fl.text, page |-> pg]
         IN  /\ heading_count' = count
             /\ outline' = Append(outline, [text |-> fl.text, key |-> bookmark_key,
                                            level |-> level])
             /\ notified' = Append(notified, entry)
             /\ toc_entries' = IF "TableOfContents" \in IndexingFlowables
                               THEN Append(toc_entries, entry) ELSE toc_entries
             /\ last_outline_level' = level

-----------------------------------------------------------------------------
(* Markup Renderer: build_code_lines with highlighting disabled *)

\* str.replace(old, new) for a one-character old.
RECURSIVE Replace(_, _, _)
Replace(chars, old, new) ==
    IF chars = <<>> THEN <<>>
    ELSE (IF Head(chars) = old THEN new ELSE <<Head(chars)>>) \o Replace(Tail(chars), old, new)

Amp == <<"&", "a", "m", "p", ";">>

Lt == <<"&", "l", "t", ";">>

Gt == <<"&", "g", "t", ";">>

\* An escape that leaves "&" alone.
escapeMutant(data) == Replace(Replace(data, ">", Gt), "<", Lt)

\* xml.sax.saxutils.escape(data): "&" first, then ">", then "<".
escape(data) == Replace(Replace(Replace(data, "&", Amp), ">", Gt), "<", Lt)

\* text.split("\n")
RECURSIVE Split(_, _)
Split(chars, cur) ==
    IF chars = <<>> THEN <<cur>>
    ELSE IF Head(chars) = "\n" THEN <<cur>> \o Split(Tail(chars), <<>>)
    ELSE Split(Tail(chars), Append(cur, Head(chars)))

\* build_code_lines(text, filename, highlight=False)
build_code_lines(t) ==
    LET parts == Split(t, <<>>)
    IN  [i \in 1..Len(parts) |-> escape(parts[i])]

\* The characters of the texts of the model.
Chars == {"&", "<", ">", "l", "t", ";", "\n"}

RECURSIVE SeqsUpTo(_, _)
SeqsUpTo(S, n) ==
    IF n = 0 THEN {<<>>}
    ELSE LET shorter == SeqsUpTo(S, n - 1)
         IN  shorter \cup {Append(q, x) : q \in shorter, x \in S}

Texts == SeqsUpTo(Chars, MaxTextLen)

-----------------------------------------------------------------------------
(* Source Acquirer and main *)

\* The source strings of the model.
Sources == {"https://github.com/org/repo", "https://gitlab.com/org/repo", "/home/u/repo"}

\* re.match(r"^https?://(www\.)?github\.com/", value), on the sources of the model.
is_github_url(value) == value \in {"https://github.com/org/repo"}

\* tempfile.mkdtemp(prefix="gh2pdf_")
TempDir == "gh2pdf_tmp"

\* Path(temp_dir) / "repo" and Path(args.source).expanduser().resolve()
RootOf(src) ==
    IF is_github_url(src) THEN <<TempDir, "repo">>
    ELSE IF src = "/home/u/repo" THEN <<"home", "u", "repo">>
    ELSE <<"cwd", "https:", "gitlab.com", "org", "repo">>

NoFilesError == "RuntimeError: No files found with the selected extensions."

CloneError == "RuntimeError: Command failed: git clone"

PathError == "RuntimeError: Path does not exist"

DependencyError == "RuntimeError: Missing dependency: reportlab"

MkdtempError == "OSError: mkdtemp"

Raise(err) ==
    /\ result' = err
    /\ pc' = "finally"

\* main, lines 399-410: the source becomes a local root directory.
Acquire ==
    /\ pc = "start"
    /\ UNCHANGED <<source, path_exists, repo, listing, rm_result, tree_text, files, outcome,
                   gen_called, output_written, printed, genVars, docVars, escVars>>
    /\ \/ /\ is_github_url(source)
          /\ Raise(MkdtempError)
          /\ UNCHANGED <<temp_dir, tmp_exists, repo_root>>
       \/ /\ is_github_url(source)
          /\ temp_dir' = TempDir
          /\ tmp_exists' = TRUE
          /\ repo_root' = RootOf(source)
          /\ Raise(CloneError)
       \/ /\ is_github_url(source)
          /\ temp_dir' = TempDir
          /\ tmp_exists' = TRUE
          /\ repo_root' = RootOf(source)
          /\ pc' = "select"
          /\ UNCHANGED result
       \/ /\ ~is_github_url(source)
          /\ ~path_exists
          /\ repo_root' = RootOf(source)
          /\ Raise(PathError)
          /\ UNCHANGED <<temp_dir, tmp_exists>>
       \/ /\ ~is_github_url(source)
          /\ path_exists
          /\ repo_root' = RootOf(source)
          /\ pc' = "select"
          /\ UNCHANGED <<temp_dir, tmp_exists, result>>

\* No check of the file list.
NoFilesMutant(fl) == FALSE

\* if not files: raise RuntimeError(...)
NoFiles(fl) == fl = <<>>

\* main, lines 412-418: the tree text, the file list, the check of an empty list.
Select ==
    /\ pc = "select"
    /\ tree_text' = build_tree(repo, listing, Last(repo_root), DEFAULT_EXTS,
                               DEFAULT_EXCLUDE_DIRS)
    /\ files' = collect_files(repo, listing, repo_root, DEFAULT_EXTS,
                              DEFAULT_EXCLUDE_DIRS, DefaultMaxFileSizeKb)
    /\ IF NoFiles(files') THEN Raise(NoFilesError)
       ELSE pc' = "generate" /\ UNCHANGED result
    /\ UNCHANGED <<source, path_exists, repo, listing, temp_dir, tmp_exists, rm_result,
                   repo_root, outcome, gen_called, output_written, printed, genVars,
                   docVars, escVars>>

\* generate_pdf, lines 181-199: reportlab cannot be imported.
GenImportError ==
    /\ pc = "generate"
    /\ gen_called' = TRUE
    /\ Raise(DependencyError)
    /\ UNCHANGED <<source, path_exists, repo, listing, temp_dir, tmp_exists, rm_result,
                   repo_root, tree_text, files, outcome, output_written, printed,
                   genVars, docVars, escVars>>

\* generate_pdf, lines 239-320: the document template, the story up to the
\* table of contents, current_dir_parts = [].
GenStart ==
    /\ pc = "generate"
    /\ gen_called' = TRUE
    /\ DocInitNext
    /\ story' = Preamble(Last(repo_root), source)
    /\ current_dir_parts' = <<>>
    /\ next_file' = 1
    /\ pc' = "loop"
    /\ UNCHANGED <<source, path_exists, repo, listing, temp_dir, tmp_exists, rm_result,
                   repo_root, tree_text, files, result, outcome, output_written, printed,
                   escVars>>

\* generate_pdf, lines 321-350: one iteration of "for path in files".
GenFile ==
    /\ pc = "loop"
    /\ next_file <= Len(files)
    /\ LET sec == FileSection(files[next_file], repo_root, current_dir_parts)
       IN  /\ story' = story \o sec.out
           /\ current_dir_parts' = sec.cur
    /\ next_file' = next_file + 1
    /\ UNCHANGED <<mainVars, docVars, escVars>>

\* generate_pdf, line 352: doc.build(story) starts.
GenBuild ==
    /\ pc = "loop"
    /\ next_file > Len(files)
    /\ pc' = "build"
    /\ UNCHANGED <<source, path_exists, repo, listing, temp_dir, tmp_exists, rm_result,
                   repo_root, tree_text, files, result, outcome, gen_called,
                   output_written, printed, genVars, docVars, escVars>>

\* A flowable that may be too long for what is left of its page: the tree
\* text, the code of a file, the table of contents. The paragraphs of the
\* story are one line each.
MayOverflow(fl) == fl.kind \in {"Preformatted", "TableOfContents"}

\* doc.build: the next flowable of the story is laid out, then afterFlowable
\* is called with it. A page break begins a page; a long flowable may begin
\* one when it does not fit on the current page.
BuildFlowable ==
    /\ pc = "build"
    /\ pos <= Len(story)
    /\ LET fl == story[pos]
       IN  /\ \/ /\ fl.kind = "PageBreak"
                 /\ page' = page + 1
                 /\ UNCHANGED overflow
              \/ /\ fl.kind # "PageBreak"
                 /\ UNCHANGED <<page, overflow>>
              \/ /\ MayOverflow(fl)
                 /\ overflow < MaxOverflow
                 /\ page' = page + 1
                 /\ overflow' = overflow + 1
           /\ toc_drawn' = IF fl.kind = "TableOfContents" THEN LastPassEntries ELSE toc_drawn
           /\ afterFlowable(fl, page')
    /\ pos' = pos + 1
    /\ UNCHANGED <<mainVars, genVars, escVars>>

\* doc.build returns: the output file is written and generate_pdf returns.
BuildEnd ==
    /\ pc = "build"
    /\ pos > Len(story)
    /\ output_written' = TRUE
    /\ pc' = "returned"
    /\ UNCHANGED <<source, path_exists, repo, listing, temp_dir, tmp_exists, rm_result,
                   repo_root, tree_text, files, result, outcome, gen_called, printed,
                   genVars, docVars, escVars>>

\* main, line 428: print(f"PDF created: {output_path}")
PrintCreated ==
    /\ pc = "returned"
    /\ printed' = TRUE
    /\ result' = "ok"
    /\ pc' = "finally"
    /\ UNCHANGED <<source, path_exists, repo, listing, temp_dir, tmp_exists, rm_result,
                   repo_root, tree_text, files, outcome, gen_called, output_written,
                   genVars, docVars, escVars>>

\* A finally clause that leaves the directory alone.
RmtreeMutant(removed) == UNCHANGED <<tmp_exists, rm_result>>

\* shutil.rmtree(temp_dir, ignore_errors=True): the directory is removed, or
\* the removal fails and the error is ignored.
Rmtree(removed) ==
    /\ rm_result' = IF removed THEN "removed" ELSE "failed, ignored"
    /\ tmp_exists' = ~removed

\* main, lines 430-432: the finally clause, then main returns or raises.
Finally ==
    /\ pc = "finally"
    /\ \/ /\ temp_dir # None
          /\ \E removed \in BOOLEAN : Rmtree(removed)
       \/ /\ temp_dir = None
          /\ UNCHANGED <<tmp_exists, rm_result>>
    /\ outcome' = result
    /\ pc' = "done"
    /\ UNCHANGED <<source, path_exists, repo, listing, temp_dir, repo_root, tree_text,
                   files, result, gen_called, output_written, printed, genVars, docVars,
                   escVars>>

\* build_code_lines(text, filename, highlight=False)
BuildCodeLines ==
    /\ pc = "escape"
    /\ lines' = build_code_lines(text)
    /\ pc' = "escaped"
    /\ UNCHANGED <<source, path_exists, repo, listing, temp_dir, tmp_exists, rm_result,
                   repo_root, tree_text, files, result, outcome, gen_called,
                   output_written, printed, genVars, docVars, text, lines_again>>

\* escape applied to each line of the result once more.
EscapeAgain ==
    /\ pc = "escaped"
    /\ lines_again' = [i \in 1..Len(lines) |-> escape(lines[i])]
    /\ pc' = "escaped twice"
    /\ UNCHANGED <<source, path_exists, repo, listing, temp_dir, tmp_exists, rm_result,
                   repo_root, tree_text, files, result, outcome, gen_called,
                   output_written, printed, genVars, docVars, text, lines>>

-----------------------------------------------------------------------------
(* Specifications *)

MainIdle ==
    /\ temp_dir = None
    /\ tmp_exists = FALSE
    /\ rm_result = "not called"
    /\ tree_text = <<>>
    /\ result = "none"
    /\ outcome = "none"
    /\ gen_called = FALSE
    /\ output_written = FALSE
    /\ printed = FALSE

GenIdle ==
    /\ next_file = 1
    /\ current_dir_parts = <<>>

EscIdle ==
    /\ text = <<>>
    /\ lines = <<>>
    /\ lines_again = <<>>

\* A run of main: any source of the model, any repository of at most
\* MaxFiles files behind it.
Init ==
    /\ pc = "start"
    /\ source \in Sources
    /\ path_exists \in BOOLEAN
    /\ is_github_url(source) => path_exists
    /\ source = "https://gitlab.com/org/repo" => ~path_exists
    /\ repo \in Repos
    /\ ~path_exists => repo = {}
    /\ listing \in Listings
    /\ repo_root = <<>>
    /\ files = <<>>
    /\ story = <<>>
    /\ MainIdle /\ GenIdle /\ DocInit /\ EscIdle

Next ==
    \/ Acquire
    \/ Select
    \/ GenImportError
    \/ GenStart
    \/ GenFile
    \/ GenBuild
    \/ BuildFlowable
    \/ BuildEnd
    \/ PrintCreated
    \/ Finally

Spec == Init /\ [][Next]_vars

\* The paths generate_pdf is handed directly: the source files of the model.
ListPaths ==
    {<<"home", "u", "repo">> \o d \o <<"f.py">> : d \in SourceDirs}
    \cup {<<"home", "u", "repo", "g.py">>, <<"home", "u", "repo", "a", "c", "g.py">>}

NoRepeat(s) == \A i, j \in 1..Len(s) : s[i] = s[j] => i = j

\* generate_pdf called with any list of at most MaxListLen files, in any order.
InitGen ==
    /\ pc = "generate"
    /\ source = "/home/u/repo"
    /\ path_exists = TRUE
    /\ repo = {}
    /\ listing = "asc"
    /\ repo_root = RootOf(source)
    /\ files \in {s \in SeqsUpTo(ListPaths, MaxListLen) : NoRepeat(s)}
    /\ story = <<>>
    /\ MainIdle /\ GenIdle /\ DocInit /\ EscIdle

NextGen ==
    \/ GenImportError
    \/ GenStart
    \/ GenFile
    \/ GenBuild
    \/ BuildFlowable
    \/ BuildEnd

SpecGen == InitGen /\ [][NextGen]_vars

\* The flowables of the stories the build is handed directly.
StoryFlowables ==
    {Paragraph("x", st) : st \in {"Heading1", "Heading2", "Heading3", "Normal"}}
    \cup {Spacer, PageBreak, Preformatted("code")}

\* The document build handed any story of at most MaxStory flowables.
InitBuild ==
    /\ pc = "build"
    /\ source = "/home/u/repo"
    /\ path_exists = TRUE
    /\ repo = {}
    /\ listing = "asc"
    /\ repo_root = RootOf(source)
    /\ files = <<>>
    /\ story \in SeqsUpTo(StoryFlowables, MaxStory)
    /\ MainIdle /\ GenIdle /\ DocInit /\ EscIdle

NextBuild ==
    \/ BuildFlowable
    \/ BuildEnd

SpecBuild == InitBuild /\ [][NextBuild]_vars

\* build_code_lines handed any text of at most MaxTextLen characters.
InitEscape ==
    /\ pc = "escape"
    /\ source = "/home/u/repo"
    /\ path_exists = TRUE
    /\ repo = {}
    /\ listing = "asc"
    /\ repo_root = <<>>
    /\ files = <<>>
    /\ story = <<>>
    /\ text \in Texts
    /\ lines = <<>>
    /\ lines_again = <<>>
    /\ MainIdle /\ GenIdle /\ DocInit

NextEscape ==
    \/ BuildCodeLines
    \/ EscapeAgain

SpecEscape == InitEscape /\ [][NextEscape]_vars

-----------------------------------------------------------------------------
(* Properties *)

\* collect_files has returned in this run.
Selected ==
    /\ pc \notin {"start", "select"}
    /\ result \notin {MkdtempError, CloneError, PathError}

\* The story holds every file section: doc.build is called with it. The
\* build does not change the story.
Assembled == pc = "build" /\ pos = 1

HeadingStyles == {"Heading1", "Heading2", "Heading3"}

StyleLevel(st) == CASE st = "Heading1" -> 0 [] st = "Heading2" -> 1 [] st = "Heading3" -> 2

Min(a, b) == IF a < b THEN a ELSE b

\* The headings among the flowables the build has handled so far.
HeadingsHandled == SelectSeq(Take(story, pos - 1), LAMBDA fl : fl.style \in HeadingStyles)

\* The headings of the per-file sections, in story order.
SectionHeadings == SelectSeq(story, LAMBDA fl : fl.role \in {"dir", "file"})

Texts_(s) == [i \in 1..Len(s) |-> s[i].text]

Rel(p) == RelativeTo(p, repo_root)

\* The directories of the repository, the non-empty prefixes of its files' directories.
RepoDirs == UNION {{Take(f.dir, n) : n \in 1..Len(f.dir)} : f \in repo}

\* An accepted file lies under directory d, directly or in a subdirectory.
HasAccepted(d) == \E p \in Range(files) : IsPrefix(d, Front(Rel(p)))

DirHeadingsOf(d) == {i \in DOMAIN story : story[i].role = "dir" /\ story[i].text = Join(d)}

\* The index in the story of the heading of the first file under d.
FirstFileHeading(d) ==
    LET first == CHOOSE k \in DOMAIN files :
                    /\ IsPrefix(d, Front(Rel(files[k])))
                    /\ \A j \in 1..(k - 1) : ~IsPrefix(d, Front(Rel(files[j])))
    IN  CHOOSE i \in DOMAIN story :
            story[i].role = "file" /\ story[i].text = Join(Rel(files[first]))

(* C1: the files the tree text lists are exactly the files collect_files
   returns, the size ceiling being applied to both. *)
C1_TreeEqualsFileList ==
    Selected => TreeFiles(tree_text) = RelFiles(files, repo_root)

(* C2, as stated: with a remote source the ephemeral directory no longer
   exists when main returns or raises. *)
C2_DirectoryGone ==
    (pc = "done" /\ is_github_url(source)) => ~tmp_exists

(* C2, amended: with a remote source main calls the removal of the ephemeral
   directory on every exit path on which the directory was created, the
   directory exists when main returns or raises only if that removal failed,
   and what main returns or raises is the outcome of the try block whether
   or not the removal succeeded; with a local source no directory is created
   and no removal is called. *)
C2_RemovalAttempted ==
    /\ tmp_exists => temp_dir # None
    /\ ~is_github_url(source) =>
          (temp_dir = None /\ ~tmp_exists /\ rm_result = "not called")
    /\ pc = "done" =>
        /\ outcome = result
        /\ outcome # "none"
        /\ (is_github_url(source) /\ temp_dir # None) =>
              /\ rm_result # "not called"
              /\ tmp_exists <=> rm_result = "failed, ignored"
        /\ (is_github_url(source) /\ temp_dir = None) => outcome = MkdtempError

\* C2, witness: a remote run in which generate_pdf failed has ended with the directory removed.
C2_Witness ==
    /\ pc = "done"
    /\ is_github_url(source)
    /\ outcome = DependencyError
    /\ rm_result = "removed"
    /\ ~tmp_exists

(* C3: when collect_files returns an empty list the run fails with the
   no-matching-files error, generate_pdf is never invoked, no output file
   is written and the success message is never printed. *)
C3_NoFilesNoOutput ==
    (Selected /\ files = <<>>) =>
        /\ pc \in {"finally", "done"}
        /\ result = NoFilesError
        /\ pc = "done" => outcome = NoFilesError
        /\ ~gen_called
        /\ ~output_written
        /\ ~printed

\* C3, witness: a remote run over a repository whose files were all rejected has ended.
C3_Witness ==
    /\ pc = "done"
    /\ is_github_url(source)
    /\ repo # {}
    /\ files = <<>>
    /\ outcome = NoFilesError

(* C4: when the build has finished, the table of contents laid out before
   the file sections holds one entry for each directory heading and each
   file heading of the file sections, and no other entry. *)
C4_TocPopulated ==
    pc = "returned" => Texts_(toc_drawn) = Texts_(SectionHeadings)

(* C5: for a file list in walk order, a directory gets a heading exactly
   once if an accepted file lies under it and none otherwise, and that
   heading stands before the heading of the first file under the directory
   with nothing but directory headings between the two. *)
C5_DirectoryHeadings ==
    Assembled =>
        /\ \A d \in RepoDirs :
              Cardinality(DirHeadingsOf(d)) = IF HasAccepted(d) THEN 1 ELSE 0
        /\ \A i \in DOMAIN story :
              story[i].role = "dir" =>
                  \E d \in RepoDirs : HasAccepted(d) /\ story[i].text = Join(d)
        /\ \A d \in RepoDirs :
              HasAccepted(d) =>
                  LET first == FirstFileHeading(d)
                  IN  \A i \in DirHeadingsOf(d) :
                          /\ i < first
                          /\ \A k \in (i + 1)..(first - 1) : story[k].role = "dir"

\* C5, witness: a story is assembled for a repository in which one directory holds only
\* rejected files and a nested directory has its heading.
C5_Witness ==
    /\ Assembled
    /\ \E d \in RepoDirs : ~HasAccepted(d) /\ d[1] \notin DEFAULT_EXCLUDE_DIRS
    /\ \E i \in DOMAIN story : story[i].role = "dir" /\ story[i].segs >= 2

(* C6: a table-of-contents entry and an outline entry are recorded for every
   heading the build has handled, in order, none skipped and none twice,
   and the recorded page numbers never decrease. *)
C6_EntryPerHeading ==
    LET handled == HeadingsHandled
    IN  /\ Len(notified) = Len(handled)
        /\ Len(outline) = Len(handled)
        /\ heading_count = Len(handled)
        /\ \A i \in 1..Len(notified) :
              /\ notified[i].text = handled[i].text
              /\ outline[i].text = handled[i].text
        /\ \A i, j \in 1..Len(notified) : i < j => notified[i].page <= notified[j].page

\* C6, witness: the build of a run has finished with a third-level heading recorded and
\* headings recorded on different pages.
C6_Witness ==
    /\ pc = "returned"
    /\ \E i \in 1..Len(notified) : HeadingsHandled[i].style = "Heading3"
    /\ \E i, j \in 1..Len(notified) : notified[i].page < notified[j].page
    /\ overflow > 0

(* C7: the outline level registered for a heading is at most one deeper than
   the level registered for the heading before it, the first heading is
   registered at level 0, and a heading whose style implies a larger jump is
   registered at the previous level + 1. *)
C7_OutlineDepth ==
    LET handled == HeadingsHandled
    IN  /\ Len(outline) = Len(handled)
        /\ \A i \in 1..Len(outline) :
              LET prev == IF i = 1 THEN -1 ELSE outline[i - 1].level
                  implied == StyleLevel(handled[i].style)
              IN  /\ outline[i].level <= prev + 1
                  /\ i = 1 => outline[i].level = 0
                  /\ outline[i].level = IF implied > prev + 1 THEN prev + 1 ELSE implied

\* C7, witness: a third-level heading following a top-level heading was registered one level deeper.
C7_Witness ==
    \E i \in 2..Len(outline) :
        /\ HeadingsHandled[i].style = "Heading3"
        /\ outline[i - 1].level = 0
        /\ outline[i].level = 1

(* C8, as stated: escaping the escaped lines once more returns them
   unchanged. *)
C8_Idempotent ==
    pc = "escaped twice" => lines_again = lines

\* The lines text.split("\n") gives, before escaping.
RawLines == Split(text, <<>>)

Reserved == {"&", "<", ">"}

(* C8, amended: escaping is not idempotent. Every "&", "<" and ">" of a line
   is replaced, the "&" of an already escaped form included, so escaping an
   escaped line once more returns it unchanged exactly when the line holds
   none of the three characters. *)
C8_EscapeTwice ==
    pc = "escaped twice" =>
        /\ Len(lines) = Len(RawLines)
        /\ Len(lines_again) = Len(RawLines)
        /\ \A i \in 1..Len(RawLines) :
              (lines_again[i] = lines[i]) <=> (Range(RawLines[i]) \cap Reserved = {})
        /\ \A i \in 1..Len(RawLines) :
              (lines[i] = RawLines[i]) <=> (Range(RawLines[i]) \cap Reserved = {})

\* C8, witness: the already escaped line "&lt;" was escaped, and escaped again.
C8_Witness ==
    /\ pc = "escaped twice"
    /\ text = <<"&", "l", "t", ";">>
    /\ lines = <<Amp \o <<"l", "t", ";">>>>
    /\ lines_again = <<Amp \o <<"a", "m", "p", ";", "l", "t", ";">>>>

(* C9, as stated: the heading of the path segment at depth n (the first
   segment at depth 0) uses level n, capped at the third level. *)
C9_LevelByDepth ==
    \A i \in DOMAIN story :
        story[i].role \in {"dir", "file"} =>
            StyleLevel(story[i].style) = Min(story[i].segs - 1, 2)

(* C9, amended: the heading of the first directory segment uses the top
   level and the heading of every deeper directory segment the second
   level; a file heading uses the second level when the file lies under
   fewer than two directories (a file of the root included) and the third
   level otherwise. *)
C9_LevelByRole ==
    \A i \in DOMAIN story :
        /\ story[i].role = "dir" =>
              StyleLevel(story[i].style) = IF story[i].segs = 1 THEN 0 ELSE 1
        /\ story[i].role = "file" =>
              StyleLevel(story[i].style) = IF story[i].segs - 1 >= 2 THEN 2 ELSE 1

\* C9, witness: a story holds the heading of a directory at depth 3, of a file under it
\* and of a file of the root.
C9_Witness ==
    /\ Assembled
    /\ \E i \in DOMAIN story : story[i].role = "dir" /\ story[i].segs = 3
    /\ \E i \in DOMAIN story : story[i].role = "file" /\ story[i].segs = 4
    /\ \E i \in DOMAIN story : story[i].role = "file" /\ story[i].segs = 1

(* C10: for any file list, in any order, the level the style of a heading
   implies is at most one more than the level of the heading before it, so
   the clamp changes nothing: the level registered is the level the style
   implies. *)
C10_ClampNeverActs ==
    LET handled == HeadingsHandled
    IN  /\ Len(outline) = Len(handled)
        /\ \A i \in 1..Len(outline) :
              /\ outline[i].level = StyleLevel(handled[i].style)
              /\ i = 1 => StyleLevel(handled[i].style) = 0
              /\ i > 1 => StyleLevel(handled[i].style)
                              <= StyleLevel(handled[i - 1].style) + 1

\* C10, witness: the build has finished for three files that are not in walk order: a file
\* in a nested directory follows a file of the directory above it with no
\* directory heading between them.
C10_Witness ==
    /\ pc = "returned"
    /\ Len(files) = 3
    /\ \E i \in 2..Len(outline) :
          /\ HeadingsHandled[i].role = "file" /\ HeadingsHandled[i].segs = 3
          /\ HeadingsHandled[i - 1].role = "file" /\ HeadingsHandled[i - 1].segs = 2

====
